---- MODULE Spec2Model ----
(***************************************************************************)
(* The upload negotiator of src/lambda_script.mjs: one Lambda handler that *)
(* classifies a request by its declared file size and asks the object      *)
(* store for a presigned PUT URL, a multipart session with one presigned   *)
(* URL per part, or the completion of a multipart session.                 *)
(*                                                                         *)
(* An invocation runs from its entry to its first await in one step and    *)
(* then one step per settled backend promise.  JavaScript values that may  *)
(* be undefined are sequences of length 0 (undefined) or 1 (the value).    *)
(***************************************************************************)
EXTENDS Integers, Sequences, FiniteSets, TLC

\* ---------------------------------------------------------------- bounds

MaxParts == 3
MaxPartsLen == 2
NumInv == 2

\* ------------------------------------------------------- program constants

SINGLE_UPLOAD_LIMIT == 5 * 1024 * 1024
PutExpiresIn == 900
PartExpiresIn == 3600

\* ------------------------------------------------------------ input values

Option(S) == {<<>>} \cup {<<v>> : v \in S}

SessionIds == {"s1", "s2"}
ErrorMessages == {"AccessDenied", "NetworkingError"}

FileSizes ==
  {0, 1} \cup {k * SINGLE_UPLOAD_LIMIT : k \in 1..MaxParts}
         \cup {k * SINGLE_UPLOAD_LIMIT + 1 : k \in 1..(MaxParts - 1)}

PartEntries == {[PartNumber |-> 1, ETag |-> "e1"], [PartNumber |-> 2, ETag |-> "e2"]}

SeqsUpTo(S, n) == UNION {[1..k -> S] : k \in 0..n}

PartsLists == SeqsUpTo(PartEntries, MaxPartsLen)

\* The fields the handler destructures from the parsed body.
Fields ==
  [fileName : Option({"", "a.bin"}),
   contentType : Option({"", "text/plain"}),
   fileSize : Option(FileSizes),
   uploadId : Option({""} \cup SessionIds),
   complete : Option(BOOLEAN),
   parts : Option(PartsLists)]

NoFields ==
  [fileName |-> <<>>, contentType |-> <<>>, fileSize |-> <<>>,
   uploadId |-> <<>>, complete |-> <<>>, parts |-> <<>>]

\* event.body: absent (undefined or ""), text that is not JSON, the JSON
\* text of null, of a number, or of an object with the given fields.
Events ==
  [kind : {"absent", "invalid", "null", "number"}, fields : {NoFields}]
    \cup [kind : {"object"}, fields : Fields]

\* A small set of requests, one per path of the handler, for the runs with
\* several invocations in flight.
ConcFields ==
  {[NoFields EXCEPT !.fileName = <<"a.bin">>, !.contentType = <<"text/plain">>,
                    !.fileSize = <<s>>, !.uploadId = u,
                    !.complete = IF p = <<>> THEN <<>> ELSE <<TRUE>>, !.parts = p] :
     s \in {1, SINGLE_UPLOAD_LIMIT + 1},
     u \in {<<>>, <<"s1">>},
     p \in {<<>>, <<  <<[PartNumber |-> 2, ETag |-> "e2"], [PartNumber |-> 1, ETag |-> "e1"]>>  >>}}

ConcEvents ==
  [kind : {"null", "invalid"}, fields : {NoFields}]
    \cup [kind : {"object"}, fields : ConcFields]

\* ------------------------------------------------- JavaScript value helpers

\* !x for a number, a string, a boolean and an array that may be undefined.
FalsyNum(x) == x = <<>> \/ x[1] = 0
FalsyStr(x) == x = <<>> \/ x[1] = ""
FalsyBool(x) == x = <<>> \/ x[1] = FALSE
FalsyArr(x) == x = <<>>

\* Math.ceil(a / b) for integers a >= 0, b > 0.
Ceil(a, b) == (a + b - 1) \div b

\* body = event.body ? JSON.parse(event.body) : {}
\* ok = FALSE: JSON.parse throws.  type: the kind of the parsed value.
ParseBody(ev) ==
  CASE ev.kind = "absent"  -> [ok |-> TRUE, type |-> "object", fields |-> NoFields]
    [] ev.kind = "invalid" -> [ok |-> FALSE, type |-> "none", fields |-> NoFields]
    [] ev.kind = "null"    -> [ok |-> TRUE, type |-> "null", fields |-> NoFields]
    [] ev.kind = "number"  -> [ok |-> TRUE, type |-> "number", fields |-> NoFields]
    [] ev.kind = "object"  -> [ok |-> TRUE, type |-> "object", fields |-> ev.fields]

\* const { fileName, ... } = body throws a TypeError when body is null and
\* yields undefined for every property of a number.
DestructureThrows(body) == body.type = "null"

MissingRequired(f) ==
  FalsyStr(f.fileName) \/ FalsyStr(f.contentType) \/ FalsyNum(f.fileSize)

\* Mutant: the limit itself classified as multipart (< for <=).
chooseUploadTypeStrict(fileSize) ==
  IF FalsyNum(fileSize) THEN "single"
  ELSE IF fileSize[1] < SINGLE_UPLOAD_LIMIT THEN "single" ELSE "multipart"

chooseUploadType(fileSize) ==
  IF FalsyNum(fileSize) THEN "single"
  ELSE IF fileSize[1] <= SINGLE_UPLOAD_LIMIT THEN "single" ELSE "multipart"

\* Mutant: Math.floor for Math.ceil.
TotalPartsFloor(fileSize) == fileSize \div SINGLE_UPLOAD_LIMIT

\* const totalParts = Math.ceil(fileSize / SINGLE_UPLOAD_LIMIT)
TotalParts(fileSize) == Ceil(fileSize, SINGLE_UPLOAD_LIMIT)

\* if (!uploadId)
IsStart(f) == FalsyStr(f.uploadId)

\* Mutant: the complete flag not looked at.
IsCompleteNoFlag(f) == ~FalsyStr(f.uploadId) /\ ~FalsyArr(f.parts)

\* if (uploadId && complete && parts)
IsComplete(f) ==
  ~FalsyStr(f.uploadId) /\ ~FalsyBool(f.complete) /\ ~FalsyArr(f.parts)

formatResponse(statusCode, body) ==
  [statusCode |-> statusCode,
   headers |-> ("Content-Type" :> "application/json"),
   body |-> body]

\* ------------------------------------------------------ backend commands

NoParts == <<>>

PutObjectCommand(fileName, contentType) ==
  [op |-> "PutObject", Key |-> fileName, ContentType |-> contentType,
   UploadId |-> "", PartNumber |-> 0, Parts |-> NoParts, expiresIn |-> PutExpiresIn]

CreateMultipartUploadCommand(fileName, contentType) ==
  [op |-> "CreateMultipartUpload", Key |-> fileName, ContentType |-> contentType,
   UploadId |-> "", PartNumber |-> 0, Parts |-> NoParts, expiresIn |-> 0]

UploadPartCommand(fileName, UploadId, partNumber) ==
  [op |-> "UploadPart", Key |-> fileName, ContentType |-> "",
   UploadId |-> UploadId, PartNumber |-> partNumber, Parts |-> NoParts,
   expiresIn |-> PartExpiresIn]

\* Mutant: the parts sorted by part number before they are sent.
RECURSIVE InsertPart(_, _)
InsertPart(p, sorted) ==
  IF sorted = <<>> THEN <<p>>
  ELSE IF p.PartNumber < Head(sorted).PartNumber THEN <<p>> \o sorted
  ELSE <<Head(sorted)>> \o InsertPart(p, Tail(sorted))

RECURSIVE SortParts(_)
SortParts(parts) ==
  IF parts = <<>> THEN <<>> ELSE InsertPart(Head(parts), SortParts(Tail(parts)))

CompleteCommandSorted(fileName, uploadId, parts) ==
  [op |-> "CompleteMultipartUpload", Key |-> fileName, ContentType |-> "",
   UploadId |-> uploadId, PartNumber |-> 0, Parts |-> SortParts(parts), expiresIn |-> 0]

CompleteMultipartUploadCommand(fileName, uploadId, parts) ==
  [op |-> "CompleteMultipartUpload", Key |-> fileName, ContentType |-> "",
   UploadId |-> uploadId, PartNumber |-> 0, Parts |-> parts, expiresIn |-> 0]

\* The URL getSignedUrl resolves to: determined by the command it signs.
SignedUrl(command) == [signed |-> command]

\* What a backend promise settles to.
Resolved(UploadId) == [ok |-> TRUE, UploadId |-> UploadId, message |-> ""]
Rejected(message) == [ok |-> FALSE, UploadId |-> "", message |-> message]

\* ------------------------------------------------------------------ state

VARIABLES
  invs,        \* the invocations the runtime runs
  event,       \* event[i]: the event invocation i was given
  pc,          \* pc[i]: where invocation i is
  calls,       \* calls[i]: the backend commands i has sent, in order
  answers,     \* answers[i]: what the backend answered to them, in order
  UploadId,    \* UploadId[i]: startMultipart's local UploadId
  urls,        \* urls[i]: startMultipart's local urls
  partNumber,  \* partNumber[i]: startMultipart's loop counter
  resp,        \* resp[i]: the responses the handler returned (at most one)
  sessions     \* the backend's multipart sessions: "none", "open", "completed"

vars == <<invs, event, pc, calls, answers, UploadId, urls, partNumber, resp, sessions>>

InitWith(I, E, S) ==
  /\ invs = I
  /\ event \in [I -> E]
  /\ pc = [i \in I |-> "idle"]
  /\ calls = [i \in I |-> <<>>]
  /\ answers = [i \in I |-> <<>>]
  /\ UploadId = [i \in I |-> ""]
  /\ urls = [i \in I |-> <<>>]
  /\ partNumber = [i \in I |-> 0]
  /\ resp = [i \in I |-> <<>>]
  /\ sessions \in S

\* One invocation, any request; the backend may hold sessions that earlier
\* invocations opened.
Init == InitWith({1}, Events, [SessionIds -> {"none", "open"}])

\* Several invocations in flight at once against a backend with no session.
ConcInit == InitWith(1..NumInv, ConcEvents, {[s \in SessionIds |-> "none"]})

\* The destructured fields of invocation i's body.
F(i) == ParseBody(event[i]).fields

LastCall(i) == calls[i][Len(calls[i])]

\* return formatResponse(...)
Return(i, r) ==
  /\ pc' = [pc EXCEPT ![i] = "returned"]
  /\ resp' = [resp EXCEPT ![i] = Append(@, r)]

\* Send a command (s3Client.send or getSignedUrl) and await it at `label`.
Send(i, label, command) ==
  /\ pc' = [pc EXCEPT ![i] = label]
  /\ calls' = [calls EXCEPT ![i] = Append(@, command)]

Settle(i, answer) == answers' = [answers EXCEPT ![i] = Append(@, answer)]

\* Mutant: a fixed text instead of the error's message.
CatchResponseGeneric(err) == formatResponse(500, [error |-> "Internal Server Error"])

\* catch (err) { return formatResponse(500, { error: err.message }) }
CatchResponse(err) == formatResponse(500, [error |-> err.message])

Catch(i, msg) ==
  /\ Settle(i, Rejected(msg))
  /\ Return(i, CatchResponse(Rejected(msg)))
  /\ UNCHANGED <<invs, event, calls, UploadId, urls, partNumber, sessions>>

\* ---------------------------------------------------------------- handler

\* The handler from its entry to its first await or its return.
handler(i) ==
  /\ pc[i] = "idle"
  /\ LET body == ParseBody(event[i])
         f == body.fields
     IN IF ~body.ok
          THEN Return(i, formatResponse(400, [error |-> "Invalid JSON body"]))
               /\ UNCHANGED calls
        ELSE IF DestructureThrows(body)
          THEN pc' = [pc EXCEPT ![i] = "threw"] /\ UNCHANGED <<resp, calls>>
        ELSE IF MissingRequired(f)
          THEN Return(i, formatResponse(400,
                 [error |-> "Missing 'fileName', 'contentType' or 'fileSize'"]))
               /\ UNCHANGED calls
        ELSE IF chooseUploadType(f.fileSize) = "single"
          THEN Send(i, "getPresignedUrl",
                    PutObjectCommand(f.fileName[1], f.contentType[1]))
               /\ UNCHANGED resp
        ELSE IF chooseUploadType(f.fileSize) = "multipart"
          THEN IF IsStart(f)
                 THEN Send(i, "createMultipart",
                           CreateMultipartUploadCommand(f.fileName[1], f.contentType[1]))
                      /\ UNCHANGED resp
               ELSE IF IsComplete(f)
                 THEN Send(i, "completeMultipart",
                           CompleteMultipartUploadCommand(
                             f.fileName[1], f.uploadId[1], f.parts[1]))
                      /\ UNCHANGED resp
               ELSE Return(i, formatResponse(400,
                      [error |-> "Invalid multipart request. Make sure to provide 'uploadId', 'complete', and 'parts' when completing multipart upload."]))
                    /\ UNCHANGED calls
        ELSE Return(i, formatResponse(400, [error |-> "Invalid request flow"]))
             /\ UNCHANGED calls
  /\ UNCHANGED <<invs, event, answers, UploadId, urls, partNumber, sessions>>

\* ------------------------------------------------------- getPresignedUrl

getPresignedUrl(i) ==
  /\ pc[i] = "getPresignedUrl"
  /\ Settle(i, Resolved(""))
  /\ Return(i, formatResponse(200,
       [uploadType |-> "single", fileName |-> F(i).fileName[1],
        contentType |-> F(i).contentType[1], url |-> SignedUrl(LastCall(i))]))
  /\ UNCHANGED <<invs, event, calls, UploadId, urls, partNumber, sessions>>

getPresignedUrlRejects(i, msg) ==
  /\ pc[i] = "getPresignedUrl"
  /\ Catch(i, msg)

\* --------------------------------------------------------- startMultipart

MultipartStartPlan(i, id, allUrls) ==
  [uploadType |-> "multipart", fileName |-> F(i).fileName[1],
   contentType |-> F(i).contentType[1], uploadId |-> id,
   totalParts |-> TotalParts(F(i).fileSize[1]), urls |-> allUrls]

\* for (...; partNumber <= totalParts; ...): sign the next part's URL, or
\* leave the loop and return the plan.
LoopOrReturn(i, id, n, allUrls) ==
  IF n <= TotalParts(F(i).fileSize[1])
    THEN Send(i, "signPart", UploadPartCommand(F(i).fileName[1], id, n))
         /\ UNCHANGED resp
    ELSE Return(i, formatResponse(200, MultipartStartPlan(i, id, allUrls)))
         /\ UNCHANGED calls

\* const { UploadId } = await s3Client.send(createCommand) resolved: the
\* backend opened a new session and the loop starts at partNumber 1.
createMultipart(i, id) ==
  /\ pc[i] = "createMultipart"
  /\ sessions[id] = "none"
  /\ sessions' = [sessions EXCEPT ![id] = "open"]
  /\ Settle(i, Resolved(id))
  /\ UploadId' = [UploadId EXCEPT ![i] = id]
  /\ urls' = [urls EXCEPT ![i] = <<>>]
  /\ partNumber' = [partNumber EXCEPT ![i] = 1]
  /\ LoopOrReturn(i, id, 1, <<>>)
  /\ UNCHANGED <<invs, event>>

createMultipartRejects(i, msg) ==
  /\ pc[i] = "createMultipart"
  /\ Catch(i, msg)

\* Mutant: urls is one module-level array that every invocation pushes to.
PushShared(i) ==
  LET j == CHOOSE j \in invs : \A k \in invs : Len(urls[k]) <= Len(urls[j])
  IN Append(urls[j], [partNumber |-> partNumber[i], url |-> SignedUrl(LastCall(i))])

\* urls.push({ partNumber, url })
Push(i) == Append(urls[i], [partNumber |-> partNumber[i], url |-> SignedUrl(LastCall(i))])

\* await getSignedUrl(s3Client, uploadPartCommand, ...) resolved.
signPart(i) ==
  /\ pc[i] = "signPart"
  /\ Settle(i, Resolved(""))
  /\ urls' = [urls EXCEPT ![i] = Push(i)]
  /\ partNumber' = [partNumber EXCEPT ![i] = @ + 1]
  /\ LoopOrReturn(i, UploadId[i], partNumber[i] + 1, Push(i))
  /\ UNCHANGED <<invs, event, UploadId, sessions>>

\* Mutant: the session is aborted when signing a part's URL fails.
signPartRejectsAborting(i, msg) ==
  /\ pc[i] = "signPart"
  /\ Settle(i, Rejected(msg))
  /\ Return(i, CatchResponse(Rejected(msg)))
  /\ calls' = [calls EXCEPT ![i] = Append(@,
       [op |-> "AbortMultipartUpload", Key |-> F(i).fileName[1], ContentType |-> "",
        UploadId |-> UploadId[i], PartNumber |-> 0, Parts |-> NoParts, expiresIn |-> 0])]
  /\ sessions' = [sessions EXCEPT ![UploadId[i]] = "aborted"]
  /\ UNCHANGED <<invs, event, UploadId, urls, partNumber>>

signPartRejects(i, msg) ==
  /\ pc[i] = "signPart"
  /\ Catch(i, msg)

\* ------------------------------------------------------ completeMultipart

\* await s3Client.send(command) resolved: the backend completed the session.
completeMultipart(i) ==
  /\ pc[i] = "completeMultipart"
  /\ sessions[LastCall(i).UploadId] = "open"
  /\ sessions' = [sessions EXCEPT ![LastCall(i).UploadId] = "completed"]
  /\ Settle(i, Resolved(""))
  /\ Return(i, formatResponse(200,
       [uploadType |-> "multipart", fileName |-> F(i).fileName[1],
        result |-> [Key |-> LastCall(i).Key, UploadId |-> LastCall(i).UploadId]]))
  /\ UNCHANGED <<invs, event, calls, UploadId, urls, partNumber>>

completeMultipartRejects(i, msg) ==
  /\ pc[i] = "completeMultipart"
  /\ Catch(i, msg)

\* ------------------------------------------------------------------- spec

Next ==
  \/ \E i \in invs : handler(i)
  \/ \E i \in invs : getPresignedUrl(i)
  \/ \E i \in invs, msg \in ErrorMessages : getPresignedUrlRejects(i, msg)
  \/ \E i \in invs, id \in SessionIds : createMultipart(i, id)
  \/ \E i \in invs, msg \in ErrorMessages : createMultipartRejects(i, msg)
  \/ \E i \in invs : signPart(i)
  \/ \E i \in invs, msg \in ErrorMessages : signPartRejects(i, msg)
  \/ \E i \in invs : completeMultipart(i)
  \/ \E i \in invs, msg \in ErrorMessages : completeMultipartRejects(i, msg)

Spec == Init /\ [][Next]_vars

ConcSpec == ConcInit /\ [][Next]_vars

\* ---------------------------------------------------------------- claims

\* The request as its sender wrote it: a field is present when the body
\* carries it, non-empty when it is present and not the empty string.
Req(i) == event[i].fields
IsObject(i) == event[i].kind = "object"
Present(x) == x # <<>>
NonEmpty(x) == x # <<>> /\ x[1] # ""
RequiredGiven(i) ==
  IsObject(i) /\ NonEmpty(Req(i).fileName) /\ NonEmpty(Req(i).contentType)
              /\ Present(Req(i).fileSize)
Large(i) == RequiredGiven(i) /\ Req(i).fileSize[1] > SINGLE_UPLOAD_LIMIT

Returned(i) == pc[i] = "returned"
Status(i) == resp[i][1].statusCode
Body(i) == resp[i][1].body
Has(b, field) == field \in DOMAIN b
OpsCalled(i, op) == {k \in 1..Len(calls[i]) : calls[i][k].op = op}
AllResolved(i) == \A k \in 1..Len(answers[i]) : answers[i][k].ok
Settled(i) == pc[i] \in {"returned", "threw"}

InvalidMultipartMessage ==
  "Invalid multipart request. Make sure to provide 'uploadId', 'complete', and 'parts' when completing multipart upload."

\* C1: a request with non-empty fileName and contentType and an integer
\* fileSize with 0 <= fileSize <= LIMIT (0 included) gets, when the backend
\* succeeds, status 200 with a single plan after exactly one issue-single-put-url
\* call and no other call; a request with fileSize > LIMIT never gets a single
\* plan and never makes that call.
C1_SinglePlanUpToLimit ==
  \A i \in invs :
    /\ (Settled(i) /\ RequiredGiven(i) /\ AllResolved(i)
          /\ Req(i).fileSize[1] <= SINGLE_UPLOAD_LIMIT)
       => /\ Returned(i)
          /\ Status(i) = 200
          /\ Has(Body(i), "uploadType") /\ Body(i).uploadType = "single"
          /\ Len(calls[i]) = 1 /\ calls[i][1].op = "PutObject"
    /\ Large(i)
       => /\ OpsCalled(i, "PutObject") = {}
          /\ Returned(i) /\ Has(Body(i), "uploadType") => Body(i).uploadType # "single"

\* The number the claims call ceil(fileSize / LIMIT): the least n with
\* n * LIMIT >= fileSize.
CeilOfLimit(fileSize) ==
  CHOOSE n \in 0..(MaxParts + 2) :
    n * SINGLE_UPLOAD_LIMIT >= fileSize /\ (n - 1) * SINGLE_UPLOAD_LIMIT < fileSize

\* C2: a multipart start (fileName and contentType present, fileSize > LIMIT,
\* uploadId absent, every backend call succeeds) returns 200 with
\* totalParts = ceil(fileSize / LIMIT), exactly totalParts urls, and the i-th
\* url has partNumber i.
C2_PartNumbersContiguous ==
  \A i \in invs :
    (Returned(i) /\ Large(i) /\ Req(i).uploadId = <<>> /\ AllResolved(i))
    => /\ Status(i) = 200
       /\ Has(Body(i), "urls") /\ Has(Body(i), "totalParts")
       /\ Body(i).totalParts = CeilOfLimit(Req(i).fileSize[1])
       /\ Len(Body(i).urls) = Body(i).totalParts
       /\ \A k \in 1..Len(Body(i).urls) : Body(i).urls[k].partNumber = k

\* A start of two full parts and one byte returned its three-part plan.
C2_Witness ==
  \E i \in invs :
    /\ Returned(i) /\ Large(i) /\ Req(i).uploadId = <<>> /\ AllResolved(i)
    /\ Req(i).fileSize[1] = 2 * SINGLE_UPLOAD_LIMIT + 1
    /\ Status(i) = 200 /\ Len(Body(i).urls) = 3

\* C3: whatever the body is and however the backend answers, the handler
\* returns exactly one response with status 200, 400 or 500 and content type
\* application/json, and never ends by throwing.
C3_AlwaysOneJsonResponse ==
  \A i \in invs :
    /\ pc[i] # "threw"
    /\ Len(resp[i]) <= 1
    /\ Returned(i)
       => /\ Len(resp[i]) = 1
          /\ Status(i) \in {200, 400, 500}
          /\ resp[i][1].headers["Content-Type"] = "application/json"

\* C4: an unparseable body yields 400 "Invalid JSON body"; otherwise a request
\* missing fileName, contentType or fileSize yields 400 whatever uploadId,
\* complete and parts are; in both cases no backend call is made.
C4_ValidationBeforeBackend ==
  \A i \in invs :
    pc[i] # "idle"
    => /\ event[i].kind = "invalid"
          => /\ Returned(i) /\ Status(i) = 400
             /\ Body(i) = [error |-> "Invalid JSON body"]
             /\ calls[i] = <<>>
       /\ (event[i].kind # "invalid"
             /\ (Req(i).fileName = <<>> \/ Req(i).contentType = <<>>
                   \/ Req(i).fileSize = <<>>))
          => /\ Returned(i) /\ Status(i) = 400
             /\ Has(Body(i), "error")
             /\ calls[i] = <<>>

\* What C5 says of a completion: one complete-multipart-session call carrying
\* the request's parts element for element, its uploadId and its fileName.
PartsPassedThrough(i) ==
  /\ Cardinality(OpsCalled(i, "CompleteMultipartUpload")) = 1
  /\ \A k \in OpsCalled(i, "CompleteMultipartUpload") :
       /\ calls[i][k].Parts = Req(i).parts[1]
       /\ calls[i][k].UploadId = Req(i).uploadId[1]
       /\ calls[i][k].Key = Req(i).fileName[1]

CompletionAsked(i) ==
  Large(i) /\ Req(i).complete = <<TRUE>> /\ Present(Req(i).parts)

\* C5 as stated: a completion (fileSize > LIMIT, uploadId present, complete
\* true, parts present) makes exactly one complete-multipart-session call with
\* the request's parts unchanged, its uploadId and its fileName.
C5_Original ==
  \A i \in invs :
    (pc[i] # "idle" /\ CompletionAsked(i) /\ Present(Req(i).uploadId))
    => PartsPassedThrough(i)

\* C5, amended: the same for a completion whose uploadId is present and not
\* the empty string.
C5_PartsPassThrough ==
  \A i \in invs :
    (pc[i] # "idle" /\ CompletionAsked(i) /\ NonEmpty(Req(i).uploadId))
    => PartsPassedThrough(i)

\* A completion sent its two parts in descending order of part number.
C5_Witness ==
  \E i \in invs :
    /\ pc[i] # "idle" /\ CompletionAsked(i) /\ NonEmpty(Req(i).uploadId)
    /\ Len(Req(i).parts[1]) = 2
    /\ Req(i).parts[1][1].PartNumber > Req(i).parts[1][2].PartNumber
    /\ Len(calls[i]) = 1 /\ calls[i][1].Parts = Req(i).parts[1]

\* What C6 says of an incomplete completion request: 400 with the multipart
\* validation message and no backend call.
RejectedLocally(i) ==
  /\ calls[i] = <<>>
  /\ pc[i] # "idle"
     => /\ Returned(i) /\ Status(i) = 400
        /\ Body(i) = [error |-> InvalidMultipartMessage]

CompletionIncomplete(i) ==
  Large(i) /\ (Req(i).complete # <<TRUE>> \/ Req(i).parts = <<>>)

\* C6 as stated: fileSize > LIMIT with uploadId present but complete not true
\* or parts absent yields 400 with the multipart validation message and no
\* backend call.
C6_Original ==
  \A i \in invs :
    (CompletionIncomplete(i) /\ Present(Req(i).uploadId)) => RejectedLocally(i)

\* C6, amended: the same when uploadId is present and not the empty string.
C6_IncompleteCompletionRejected ==
  \A i \in invs :
    (CompletionIncomplete(i) /\ NonEmpty(Req(i).uploadId)) => RejectedLocally(i)

\* A request with uploadId and parts but no complete flag was answered 400.
C6_Witness ==
  \E i \in invs :
    /\ CompletionIncomplete(i) /\ NonEmpty(Req(i).uploadId)
    /\ Req(i).complete = <<>> /\ Present(Req(i).parts)
    /\ Returned(i) /\ Status(i) = 400

\* C7: a failed backend call is the invocation's last call (nothing follows
\* it, it is not repeated) and the invocation returns 500 with the backend's
\* error message; 500 is returned only after a failed backend call.
C7_BackendFailureIs500 ==
  \A i \in invs :
    /\ \A k \in 1..Len(answers[i]) :
         ~answers[i][k].ok
         => /\ k = Len(calls[i])
            /\ Returned(i) /\ Status(i) = 500
            /\ Body(i) = [error |-> answers[i][k].message]
    /\ (Returned(i) /\ Status(i) = 500)
       => /\ answers[i] # <<>>
          /\ ~answers[i][Len(answers[i])].ok

\* A start whose second part URL failed returned 500.
C7_Witness ==
  \E i \in invs :
    /\ Returned(i) /\ Status(i) = 500
    /\ Len(calls[i]) = 3 /\ calls[i][3].op = "UploadPart"
    /\ ~answers[i][3].ok

StartCalled(i) == OpsCalled(i, "CreateMultipartUpload") # {}
CompleteCalled(i) == OpsCalled(i, "CompleteMultipartUpload") # {}
OverLimit(i) == Req(i).fileSize[1] > SINGLE_UPLOAD_LIMIT

\* C9 as stated, for a request with the required fields: start is called iff
\* fileSize > LIMIT and uploadId is absent; complete is called iff
\* fileSize > LIMIT, uploadId is present, complete is true and parts is
\* present; never both; neither when fileSize <= LIMIT.
C9_Original ==
  \A i \in invs :
    (pc[i] # "idle" /\ RequiredGiven(i))
    => /\ StartCalled(i) <=> (OverLimit(i) /\ Req(i).uploadId = <<>>)
       /\ CompleteCalled(i) <=>
            (OverLimit(i) /\ Present(Req(i).uploadId)
               /\ Req(i).complete = <<TRUE>> /\ Present(Req(i).parts))
       /\ ~(StartCalled(i) /\ CompleteCalled(i))
       /\ ~OverLimit(i) => ~StartCalled(i) /\ ~CompleteCalled(i)

\* C9, amended: an empty uploadId counts as absent: start is called iff
\* fileSize > LIMIT and uploadId is absent or empty; complete is called iff
\* fileSize > LIMIT, uploadId is non-empty, complete is true and parts is
\* present; never both; neither when fileSize <= LIMIT.
C9_SubPhasePrecedence ==
  \A i \in invs :
    (pc[i] # "idle" /\ RequiredGiven(i))
    => /\ StartCalled(i) <=> (OverLimit(i) /\ ~NonEmpty(Req(i).uploadId))
       /\ CompleteCalled(i) <=>
            (OverLimit(i) /\ NonEmpty(Req(i).uploadId)
               /\ Req(i).complete = <<TRUE>> /\ Present(Req(i).parts))
       /\ ~(StartCalled(i) /\ CompleteCalled(i))
       /\ ~OverLimit(i) => ~StartCalled(i) /\ ~CompleteCalled(i)

\* A request of exactly LIMIT bytes with uploadId, complete and parts all
\* given got its single URL; neither multipart call was made.
C9_Witness ==
  \E i \in invs :
    /\ RequiredGiven(i) /\ Req(i).fileSize[1] = SINGLE_UPLOAD_LIMIT
    /\ NonEmpty(Req(i).uploadId) /\ Req(i).complete = <<TRUE>>
    /\ Present(Req(i).parts)
    /\ Returned(i) /\ Status(i) = 200 /\ Len(calls[i]) = 1

\* C10: in a multipart start the session is opened once and before any part
\* URL is asked for; every part call carries the session id that call
\* returned; the 200 plan is returned only after all totalParts part calls
\* succeeded; when a part call fails after the session was opened the
\* response is 500 with no plan, no abort or complete call is made and the
\* session is still open.
C10_StartOrderAndDangling ==
  \A i \in invs :
    /\ OpsCalled(i, "AbortMultipartUpload") = {}
    /\ Cardinality(OpsCalled(i, "CreateMultipartUpload")) <= 1
    /\ \A k \in OpsCalled(i, "UploadPart") :
         /\ k >= 2 /\ calls[i][1].op = "CreateMultipartUpload"
         /\ Len(answers[i]) >= 1 /\ answers[i][1].ok
         /\ calls[i][k].UploadId = answers[i][1].UploadId
         /\ calls[i][k].PartNumber = k - 1
    /\ (Returned(i) /\ Status(i) = 200 /\ Has(Body(i), "urls"))
       => /\ Cardinality(OpsCalled(i, "UploadPart")) = Body(i).totalParts
          /\ Body(i).totalParts = CeilOfLimit(Req(i).fileSize[1])
          /\ Len(answers[i]) = Len(calls[i]) /\ AllResolved(i)
          /\ Body(i).uploadId = answers[i][1].UploadId
    /\ (StartCalled(i) /\ Len(answers[i]) >= 2 /\ ~answers[i][Len(answers[i])].ok)
       => /\ Returned(i) /\ Status(i) = 500
          /\ ~Has(Body(i), "urls")
          /\ ~CompleteCalled(i)
          /\ sessions[answers[i][1].UploadId] = "open"

\* A start opened a session, its first part URL failed, and the session is
\* left open behind a 500.
C10_Witness ==
  \E i \in invs :
    /\ StartCalled(i) /\ Len(answers[i]) = 2
    /\ answers[i][1].ok /\ ~answers[i][2].ok
    /\ Returned(i) /\ Status(i) = 500
    /\ sessions[answers[i][1].UploadId] = "open"

\* What an invocation run alone has done once the backend has given the
\* answers `ans` to its calls, as a function of its own event and of those
\* answers only: where it is, the calls it has made, what it has returned.
AloneFailed(callsMade, ans) ==
  [pc |-> "returned", calls |-> callsMade,
   resp |-> <<formatResponse(500, [error |-> ans[Len(ans)].message])>>]

AloneSingle(f, ans) ==
  LET put == PutObjectCommand(f.fileName[1], f.contentType[1])
  IN IF ans = <<>> THEN [pc |-> "getPresignedUrl", calls |-> <<put>>, resp |-> <<>>]
     ELSE IF ~ans[1].ok THEN AloneFailed(<<put>>, ans)
     ELSE [pc |-> "returned", calls |-> <<put>>,
           resp |-> <<formatResponse(200,
             [uploadType |-> "single", fileName |-> f.fileName[1],
              contentType |-> f.contentType[1], url |-> SignedUrl(put)])>>]

AloneStart(f, ans) ==
  LET create == CreateMultipartUploadCommand(f.fileName[1], f.contentType[1])
      total == CeilOfLimit(f.fileSize[1])
      id == ans[1].UploadId
      part(k) == UploadPartCommand(f.fileName[1], id, k)
      \* part calls made: one per answer after the first, and the next one
      \* while the last answer is good and parts remain
      asked == IF ans[Len(ans)].ok /\ Len(ans) - 1 < total THEN Len(ans) ELSE Len(ans) - 1
      made == <<create>> \o [k \in 1..asked |-> part(k)]
  IN IF ans = <<>> THEN [pc |-> "createMultipart", calls |-> <<create>>, resp |-> <<>>]
     ELSE IF ~ans[1].ok THEN AloneFailed(<<create>>, ans)
     ELSE IF ~ans[Len(ans)].ok THEN AloneFailed(made, ans)
     ELSE IF Len(ans) - 1 < total THEN [pc |-> "signPart", calls |-> made, resp |-> <<>>]
     ELSE [pc |-> "returned", calls |-> made,
           resp |-> <<formatResponse(200,
             [uploadType |-> "multipart", fileName |-> f.fileName[1],
              contentType |-> f.contentType[1], uploadId |-> id, totalParts |-> total,
              urls |-> [k \in 1..total |-> [partNumber |-> k, url |-> SignedUrl(part(k))]]])>>]

AloneComplete(f, ans) ==
  LET done == CompleteMultipartUploadCommand(f.fileName[1], f.uploadId[1], f.parts[1])
  IN IF ans = <<>> THEN [pc |-> "completeMultipart", calls |-> <<done>>, resp |-> <<>>]
     ELSE IF ~ans[1].ok THEN AloneFailed(<<done>>, ans)
     ELSE [pc |-> "returned", calls |-> <<done>>,
           resp |-> <<formatResponse(200,
             [uploadType |-> "multipart", fileName |-> f.fileName[1],
              result |-> [Key |-> f.fileName[1], UploadId |-> f.uploadId[1]]])>>]

AloneRejected(message) ==
  [pc |-> "returned", calls |-> <<>>, resp |-> <<formatResponse(400, [error |-> message])>>]

Alone(ev, ans) ==
  LET f == ev.fields
      given == NonEmpty(f.fileName) /\ NonEmpty(f.contentType)
                 /\ Present(f.fileSize) /\ f.fileSize[1] # 0
  IN IF ev.kind = "invalid" THEN AloneRejected("Invalid JSON body")
     ELSE IF ev.kind = "null" THEN [pc |-> "threw", calls |-> <<>>, resp |-> <<>>]
     ELSE IF ev.kind # "object" \/ ~given
       THEN AloneRejected("Missing 'fileName', 'contentType' or 'fileSize'")
     ELSE IF f.fileSize[1] <= SINGLE_UPLOAD_LIMIT THEN AloneSingle(f, ans)
     ELSE IF ~NonEmpty(f.uploadId) THEN AloneStart(f, ans)
     ELSE IF f.complete = <<TRUE>> /\ Present(f.parts) THEN AloneComplete(f, ans)
     ELSE AloneRejected(InvalidMultipartMessage)

\* C8: with any number of invocations in flight and their backend calls
\* interleaved in any order, what each invocation has called and returned is
\* what it does alone on its own event and the answers to its own calls.
C8_InvocationsIsolated ==
  \A i \in invs :
    pc[i] # "idle"
    => LET alone == Alone(event[i], answers[i])
       IN pc[i] = alone.pc /\ calls[i] = alone.calls /\ resp[i] = alone.resp

\* Two multipart starts are in flight together, each past its first part
\* URL and each on its own session.
C8_Witness ==
  \E i, j \in invs :
    /\ i # j
    /\ pc[i] = "signPart" /\ pc[j] = "signPart"
    /\ Len(urls[i]) >= 1 /\ Len(urls[j]) >= 1
    /\ UploadId[i] # UploadId[j]

====
